---- MODULE Spec2Model ----
(***************************************************************************)
(* A model of ontology_service.py: the startup scan of the ontology        *)
(* directory, the one-shot reasoner call of the lifespan, and the two      *)
(* read-only routes.  Strings that the code takes apart (file names,       *)
(* IRIs, class-name fragments) are sequences of one-character strings.     *)
(***************************************************************************)
EXTENDS Integers, Sequences, FiniteSets, TLC

VARIABLES
    dir_exists,         \* os.path.exists(ONTOLOGY_DIR)
    fs,                 \* directory entry -> "absent" | "valid" | "invalid"
    loaded_ontologies,  \* the module-level dict: key -> loaded model
    pc,                 \* position of lifespan: start, loaded, serving, stopped
    attempted,          \* files on which get_ontology(...).load() was called
    load_errors,        \* files named in a "Failed to load ontology" log line
    dir_warning,        \* the "not found. Creating it." warning was logged
    reasoned,           \* sync_reasoner() has applied its inferences
    reasoner_calls,     \* number of sync_reasoner() invocations
    reasoner_failed,    \* the "Reasoning failed" error was logged
    req                 \* per worker thread: the request it is handling

vars == <<dir_exists, fs, loaded_ontologies, pc, attempted, load_errors,
          dir_warning, reasoned, reasoner_calls, reasoner_failed, req>>

-----------------------------------------------------------------------------
(* Bounds *)

\* the most entries the scanned directory holds
MaxFiles == 3

\* the worker threads that run route handlers concurrently
Threads == {"w1", "w2"}

-----------------------------------------------------------------------------
(* Strings *)

EndsWith(s, suffix) ==
    /\ Len(suffix) <= Len(s)
    /\ SubSeq(s, Len(s) - Len(suffix) + 1, Len(s)) = suffix

OwlSuffix == <<".", "o", "w", "l">>

\* index of the last "." of p, 0 when there is none (str.rfind, 1-based)
RFindDot(p) ==
    IF \E i \in 1 .. Len(p) : p[i] = "."
    THEN CHOOSE i \in 1 .. Len(p) :
            /\ p[i] = "."
            /\ \A j \in (i + 1) .. Len(p) : p[j] # "."
    ELSE 0

\* os.path.splitext(filename)[0] for a name without a path separator:
\* the extension starts at the last dot, unless only dots precede that dot
SplitextRoot(p) ==
    LET dotIndex == RFindDot(p)
    IN  IF dotIndex > 0 /\ \E j \in 1 .. (dotIndex - 1) : p[j] # "."
        THEN SubSeq(p, 1, dotIndex - 1)
        ELSE p

OntologyName(filename) == SplitextRoot(filename)

-----------------------------------------------------------------------------
(* The directory *)

FileA == <<"a", ".", "o", "w", "l">>
FileDot == <<".", "o", "w", "l">>
FileDotOwl == <<".", "o", "w", "l", ".", "o", "w", "l">>
FileTxt == <<"a", ".", "t", "x">>

\* the names a directory entry may have
FileNames == {FileA, FileDot, FileDotOwl, FileTxt}

Listing == {f \in FileNames : fs[f] # "absent"}

\* every order in which os.listdir may enumerate a set of entries
Orders(S) ==
    {o \in [1 .. Cardinality(S) -> S] :
        \A i, j \in 1 .. Cardinality(S) : i # j => o[i] # o[j]}

\* the dict after d[k] = v
DictSet(d, k, v) == [x \in DOMAIN d \cup {k} |-> IF x = k THEN v ELSE d[x]]

EmptyDict == [x \in {} |-> x]

\* one pass of the for loop body over the entries still to enumerate
RECURSIVE LoadLoop(_, _)
LoadLoop(order, st) ==
    IF order = <<>> THEN st
    ELSE
        LET filename == Head(order)
            next ==
                IF ~EndsWith(filename, OwlSuffix) THEN st
                ELSE IF fs[filename] = "valid"
                THEN [st EXCEPT
                        !.store = DictSet(st.store, OntologyName(filename), filename),
                        !.attempted = @ \cup {filename}]
                ELSE [st EXCEPT
                        !.attempted = @ \cup {filename},
                        !.errors = @ \cup {filename}]
        IN  LoadLoop(Tail(order), next)

\* the missing-directory branch without its os.makedirs call
MissingDirectory_NoMakedirs ==
    /\ dir_warning' = TRUE
    /\ UNCHANGED <<dir_exists, loaded_ontologies, attempted, load_errors>>

\* the branch for a missing directory: warn, os.makedirs, return
MissingDirectory ==
    /\ dir_warning' = TRUE
    /\ dir_exists' = TRUE
    /\ UNCHANGED <<loaded_ontologies, attempted, load_errors>>

\* load_ontologies_from_directory(ONTOLOGY_DIR), called by lifespan at startup
LoadOntologiesFromDirectory ==
    /\ pc = "start"
    /\ pc' = "loaded"
    /\ IF ~dir_exists
       THEN MissingDirectory
       ELSE /\ \E order \in Orders(Listing) :
                LET st == LoadLoop(order, [store |-> loaded_ontologies,
                                           attempted |-> attempted,
                                           errors |-> load_errors])
                IN  /\ loaded_ontologies' = st.store
                    /\ attempted' = st.attempted
                    /\ load_errors' = st.errors
            /\ UNCHANGED <<dir_exists, dir_warning>>
    /\ UNCHANGED <<fs, reasoned, reasoner_calls, reasoner_failed, req>>

-----------------------------------------------------------------------------
(* The loaded models: what owlready2 holds for each file that loads *)

\* the entities a loaded file declares (owl:Thing belongs to no file)
Members(file) ==
    IF file = FileA THEN {"Animal", "Dog", "Pet", "fido"} ELSE {"T"}

\* entity.iri
Iri(e) ==
    CASE e = "Animal" -> <<"#", "A", "n", "i", "m", "a", "l">>
      [] e = "Dog"    -> <<"#", "D", "o", "g">>
      [] e = "Pet"    -> <<"#", "P", "e", "t">>
      [] e = "fido"   -> <<"#", "f", "i", "d", "o">>
      [] e = "T"      -> <<"#", "T">>
      [] OTHER        -> <<"o", "w", "l", "#", "T", "h", "i", "n", "g">>

\* entity.name, the local name
Name(e) == e

\* entity.label, in declaration order
Label(e) ==
    CASE e = "Dog" -> <<"Dog", "Canine">>
      [] e = "T"   -> <<"Top">>
      [] OTHER     -> <<>>

\* individuals are instances, not classes: they have no ancestors() method
IsClass(e) == e # "fido"

\* the superclasses the document asserts
Asserted(e) ==
    CASE e = "Dog"    -> {"Animal"}
      [] e = "Animal" -> {"Thing"}
      [] e = "Pet"    -> {"Thing"}
      [] e = "T"      -> {"Thing"}
      [] OTHER        -> {}

\* the superclasses the reasoner adds when it succeeds
Inferred(e) == IF e = "Dog" THEN {"Pet"} ELSE {}

\* entity.is_a in the current world
IsA(e, withInferred) ==
    IF withInferred THEN Asserted(e) \cup Inferred(e) ELSE Asserted(e)

RECURSIVE Closure(_, _)
Closure(S, withInferred) ==
    LET more == S \cup UNION {IsA(e, withInferred) : e \in S}
    IN  IF more = S THEN S ELSE Closure(more, withInferred)

\* cls.ancestors(): the class itself and everything reachable over is_a
Ancestors(cls, withInferred) == Closure({cls}, withInferred)

\* the pattern match of search(iri = pattern): "*" stands for any run of
\* characters, every other character for itself
RECURSIVE GlobMatch(_, _)
GlobMatch(pattern, s) ==
    IF pattern = <<>> THEN s = <<>>
    ELSE IF Head(pattern) = "*"
    THEN \/ GlobMatch(Tail(pattern), s)
         \/ s # <<>> /\ GlobMatch(pattern, Tail(s))
    ELSE /\ s # <<>>
         /\ Head(s) = Head(pattern)
         /\ GlobMatch(Tail(pattern), Tail(s))

\* the pattern fetch_superclasses builds: f"*{class_name}"
SearchPattern(class_name) == <<"*">> \o class_name

\* the entities ontology.search(iri = f"*{class_name}") finds
SearchMatches(ontology, class_name) ==
    {e \in Members(ontology) : GlobMatch(SearchPattern(class_name), Iri(e))}

-----------------------------------------------------------------------------
(* Requests *)

\* the ontology_name path parameters tried
OntologyNames == {<<"a">>, <<".", "o", "w", "l">>, <<"z">>}

\* the class_name path parameters tried
ClassNames ==
    {<<"D", "o", "g">>, <<"a", "l">>, <<"f", "i", "d", "o">>,
     <<"*">>, <<"T">>}

OpaqueDetail == <<"An unexpected error occurred while processing the request.">>

Idle ==
    [pc |-> "idle", route |-> "none", ontology_name |-> <<>>, class_name |-> <<>>,
     searched |-> FALSE, cls |-> "None", superclasses |-> {},
     status |-> 0, detail |-> <<>>, body |-> <<>>, logged |-> <<>>]

\* the keys a response lists: list(loaded_ontologies.keys())
Keys == DOMAIN loaded_ontologies

Free(t) == req[t].pc \in {"idle", "done"}

\* get_available_ontologies()
GetAvailableOntologies(t) ==
    /\ pc = "serving"
    /\ Free(t)
    /\ req' = [req EXCEPT ![t] =
            [Idle EXCEPT !.pc = "done", !.route = "ontologies", !.status = 200,
                !.body = IF Keys = {}
                         THEN <<"message">>
                         ELSE <<"available_ontologies", Keys>>]]
    /\ UNCHANGED <<dir_exists, fs, loaded_ontologies, pc, attempted, load_errors,
                   dir_warning, reasoned, reasoner_calls, reasoner_failed>>

\* the guard with its test turned round
UnknownOntology_Inverted(ontology_name) == ontology_name \in DOMAIN loaded_ontologies

\* the guard of get_superclasses_route: is the request rejected at once?
UnknownOntology(ontology_name) == ontology_name \notin DOMAIN loaded_ontologies

\* get_superclasses_route, up to the try block
RouteCheck(t) ==
    /\ pc = "serving"
    /\ Free(t)
    /\ \E ontology_name \in OntologyNames, class_name \in ClassNames :
        LET r == [Idle EXCEPT !.route = "superclasses",
                              !.ontology_name = ontology_name,
                              !.class_name = class_name]
        IN  req' = [req EXCEPT ![t] =
                IF UnknownOntology(ontology_name)
                THEN [r EXCEPT !.pc = "done", !.status = 404,
                               !.detail = <<"Ontology not found", ontology_name, Keys>>]
                ELSE [r EXCEPT !.pc = "try"]]
    /\ UNCHANGED <<dir_exists, fs, loaded_ontologies, pc, attempted, load_errors,
                   dir_warning, reasoned, reasoner_calls, reasoner_failed>>

\* the detail when the handler passes the exception's text on
ServerErrorDetail_Leaky(exception) == exception

\* the HTTPException detail for an exception other than ValueError
ServerErrorDetail(exception) == OpaqueDetail

\* the dict had the handler taken the model out with pop()
StoreAfterLookup_Pop(ontology_name) ==
    [k \in DOMAIN loaded_ontologies \ {ontology_name} |-> loaded_ontologies[k]]

\* the dict after ontology = loaded_ontologies[ontology_name]: a read
StoreAfterLookup(ontology_name) == loaded_ontologies

\* the try block up to the label loop:
\* ontology = loaded_ontologies[ontology_name]; fetch_superclasses(ontology, class_name)
RouteFetch(t) ==
    /\ pc = "serving"
    /\ req[t].pc = "try"
    /\ loaded_ontologies' = StoreAfterLookup(req[t].ontology_name)
    /\ IF req[t].ontology_name \notin DOMAIN loaded_ontologies
       THEN \* the subscript raises KeyError: logged, turned into a 500
            LET exception == <<"KeyError", req[t].ontology_name>>
            IN  req' = [req EXCEPT ![t] =
                    [@ EXCEPT !.pc = "done", !.status = 500, !.logged = exception,
                              !.detail = ServerErrorDetail(exception)]]
       ELSE
        LET ontology == loaded_ontologies[req[t].ontology_name]
            matches == SearchMatches(ontology, req[t].class_name)
            r == [req[t] EXCEPT !.searched = TRUE]
        IN  IF matches = {}
            THEN \* search_one gives None: ValueError, turned into a 404
                 req' = [req EXCEPT ![t] =
                    [r EXCEPT !.pc = "done", !.status = 404,
                              !.detail = <<"Class not found", r.class_name, ontology>>]]
            ELSE \E cls \in matches :
                 IF IsClass(cls)
                 THEN req' = [req EXCEPT ![t] =
                        [r EXCEPT !.pc = "labels", !.cls = cls,
                                  !.superclasses = Ancestors(cls, reasoned)]]
                 ELSE \* cls.ancestors raises AttributeError: logged, turned into a 500
                      LET exception == <<"AttributeError", "ancestors">>
                      IN  req' = [req EXCEPT ![t] =
                            [r EXCEPT !.pc = "done", !.cls = cls, !.status = 500,
                                      !.logged = exception,
                                      !.detail = ServerErrorDetail(exception)]]
    /\ UNCHANGED <<dir_exists, fs, pc, attempted, load_errors, dir_warning,
                   reasoned, reasoner_calls, reasoner_failed>>

\* get_labels(entity)
GetLabels(entity) ==
    IF Label(entity) # <<>> THEN Label(entity) ELSE <<Name(entity)>>

\* the entry when the last label is taken instead of the first
ResponseEntry_LastLabel(cls) ==
    LET labels == GetLabels(cls)
    IN  IF labels # <<>> THEN labels[Len(labels)] ELSE Name(cls)

\* the string appended for cls: labels[0] if labels else cls.name
ResponseEntry(cls) ==
    LET labels == GetLabels(cls)
    IN  IF labels # <<>> THEN labels[1] ELSE Name(cls)

\* the for loop over the ancestor set, in the set's iteration order, and the return
RouteLabels(t) ==
    /\ pc = "serving"
    /\ req[t].pc = "labels"
    /\ \E order \in Orders(req[t].superclasses) :
        req' = [req EXCEPT ![t] =
            [@ EXCEPT !.pc = "done", !.status = 200,
                      !.body = [i \in 1 .. Len(order) |-> ResponseEntry(order[i])]]]
    /\ UNCHANGED <<dir_exists, fs, loaded_ontologies, pc, attempted, load_errors,
                   dir_warning, reasoned, reasoner_calls, reasoner_failed>>

-----------------------------------------------------------------------------
(* lifespan *)

\* the reasoner call without its guard
ShouldReason_Always == TRUE

\* the test `if loaded_ontologies:` that guards the reasoner call
ShouldReason == loaded_ontologies # EmptyDict

\* sync_reasoner() returns: the inferred superclasses are now in the models
ReasonerSucceeds ==
    /\ pc = "loaded"
    /\ ShouldReason
    /\ reasoner_calls' = reasoner_calls + 1
    /\ reasoned' = TRUE
    /\ pc' = "serving"
    /\ UNCHANGED <<dir_exists, fs, loaded_ontologies, attempted, load_errors,
                   dir_warning, reasoner_failed, req>>

\* sync_reasoner() raises and nothing catches it: startup is abandoned
ReasonerFails_Uncaught ==
    /\ pc = "loaded"
    /\ ShouldReason
    /\ reasoner_calls' = reasoner_calls + 1
    /\ reasoner_failed' = TRUE
    /\ pc' = "stopped"
    /\ UNCHANGED <<dir_exists, fs, loaded_ontologies, attempted, load_errors,
                   dir_warning, reasoned, req>>

\* sync_reasoner() raises: caught and logged, the models stay as loaded
ReasonerFails ==
    /\ pc = "loaded"
    /\ ShouldReason
    /\ reasoner_calls' = reasoner_calls + 1
    /\ reasoner_failed' = TRUE
    /\ pc' = "serving"
    /\ UNCHANGED <<dir_exists, fs, loaded_ontologies, attempted, load_errors,
                   dir_warning, reasoned, req>>

\* nothing loaded: lifespan goes straight to its yield
ReasonerSkipped ==
    /\ pc = "loaded"
    /\ ~ShouldReason
    /\ pc' = "serving"
    /\ UNCHANGED <<dir_exists, fs, loaded_ontologies, attempted, load_errors,
                   dir_warning, reasoned, reasoner_calls, reasoner_failed, req>>

\* after the yield: loaded_ontologies.clear(), once the server has drained
Shutdown ==
    /\ pc = "serving"
    /\ \A t \in Threads : Free(t)
    /\ loaded_ontologies' = EmptyDict
    /\ pc' = "stopped"
    /\ UNCHANGED <<dir_exists, fs, attempted, load_errors, dir_warning,
                   reasoned, reasoner_calls, reasoner_failed, req>>

-----------------------------------------------------------------------------

\* a directory that may be missing; when it is there, any mix of at most
\* MaxFiles entries, each '.owl' entry a document that loads or one that does
\* not (the entry without the suffix is never loaded, so it is just present)
Init ==
    /\ dir_exists \in BOOLEAN
    /\ fs \in [FileNames -> {"absent", "valid", "invalid"}]
    /\ ~dir_exists => \A f \in FileNames : fs[f] = "absent"
    /\ fs[FileTxt] # "valid"
    /\ Cardinality({f \in FileNames : fs[f] # "absent"}) <= MaxFiles
    /\ loaded_ontologies = EmptyDict
    /\ pc = "start"
    /\ attempted = {}
    /\ load_errors = {}
    /\ dir_warning = FALSE
    /\ reasoned = FALSE
    /\ reasoner_calls = 0
    /\ reasoner_failed = FALSE
    /\ req = [t \in Threads |-> Idle]

Next ==
    \/ LoadOntologiesFromDirectory
    \/ ReasonerSucceeds
    \/ ReasonerFails
    \/ ReasonerSkipped
    \/ \E t \in Threads : GetAvailableOntologies(t)
    \/ \E t \in Threads : RouteCheck(t)
    \/ \E t \in Threads : RouteFetch(t)
    \/ \E t \in Threads : RouteLabels(t)
    \/ Shutdown

Spec == Init /\ [][Next]_vars

-----------------------------------------------------------------------------
(* Properties of the directory scan *)

\* the '.owl' entries of the directory that load, and those that fail to
ValidOwl == {f \in FileNames : fs[f] = "valid" /\ EndsWith(f, OwlSuffix)}
InvalidOwl == {f \in FileNames : fs[f] = "invalid" /\ EndsWith(f, OwlSuffix)}

\* the files whose load() returned
Loaded == attempted \ load_errors

AfterLoad == pc \in {"loaded", "serving"}

\* C1: after the scan of a directory with N '.owl' files that load and M that
\* fail, the store has exactly N entries, exactly M failures are logged, and
\* every '.owl' file was tried whatever happened to the files before it.
C1_LoadCounts ==
    AfterLoad =>
        /\ Cardinality(DOMAIN loaded_ontologies) = Cardinality(ValidOwl)
        /\ Cardinality(load_errors) = Cardinality(InvalidOwl)
        /\ attempted = ValidOwl \cup InvalidOwl

\* C7: the scan of a missing directory returns with the directory created,
\* no load attempted and the store empty.
C7_MissingDirectoryCreated ==
    [][(pc = "start" /\ ~dir_exists) =>
            /\ pc' = "loaded"
            /\ dir_exists'
            /\ attempted' = {}
            /\ loaded_ontologies' = EmptyDict]_vars

\* the scan has returned from its missing-directory branch
C7_Witness ==
    /\ pc = "loaded"
    /\ dir_warning
    /\ dir_exists
    /\ attempted = {}
    /\ loaded_ontologies = EmptyDict

\* C8: after the scan every key is the name of a loaded file without its
\* trailing '.owl', and no loaded file was overwritten by another one.
C8_KeysFromFilenames ==
    AfterLoad =>
        /\ \A k \in DOMAIN loaded_ontologies : \E f \in Loaded : f = k \o OwlSuffix
        /\ \A f \in Loaded : \E k \in DOMAIN loaded_ontologies : loaded_ontologies[k] = f

-----------------------------------------------------------------------------
(* Properties of the superclasses route *)

\* the requests to the superclasses route that have been answered
Answered(t) == req[t].route = "superclasses" /\ req[t].pc = "done"

Known(t) == req[t].ontology_name \in DOMAIN loaded_ontologies

\* the entities the search of request t can find
Found(t) ==
    IF Known(t)
    THEN SearchMatches(loaded_ontologies[req[t].ontology_name], req[t].class_name)
    ELSE {}

C3_RejectedBeforeSearch ==
    pc = "serving" =>
        \A t \in Threads : (req[t].route = "superclasses" /\ ~Known(t)) =>
            /\ ~req[t].searched
            /\ req[t].pc = "done"
            /\ req[t].status = 404

\* an unknown name was rejected while models were loaded and being searched
C3_Witness ==
    /\ pc = "serving"
    /\ loaded_ontologies # EmptyDict
    /\ \E t, u \in Threads :
        /\ Answered(t) /\ ~Known(t)
        /\ req[u].searched

\* the first declared label, the local name when there is none
FirstLabelOrName(e) == IF Len(Label(e)) >= 1 THEN Head(Label(e)) ELSE Name(e)

\* C10: a success body has one string per member of the ancestor set, the
\* member's first label or else its local name, and no request fails in the
\* label loop.
C10_OneLabelPerAncestor ==
    \A t \in Threads : req[t].route = "superclasses" =>
        /\ req[t].status = 200 =>
            /\ Len(req[t].body) = Cardinality(req[t].superclasses)
            /\ \E order \in Orders(req[t].superclasses) :
                \A i \in 1 .. Len(order) : req[t].body[i] = FirstLabelOrName(order[i])
        /\ req[t].status = 500 => req[t].superclasses = {}

\* a success whose ancestor set has a class with two labels and one with none
C10_Witness ==
    \E t \in Threads :
        /\ Answered(t) /\ req[t].status = 200
        /\ {"Dog", "Animal"} \subseteq req[t].superclasses

-----------------------------------------------------------------------------
(* Properties of the lifecycle *)

\* C4: nothing is reasoned over before the scan has returned; once startup
\* is over the reasoner has run exactly once if the scan loaded something and
\* never if it loaded nothing; and no request is taken before then.
C4_ReasonOnceAtStartup ==
    /\ pc = "start" => attempted = {} /\ loaded_ontologies = EmptyDict
    /\ pc \in {"start", "loaded"} =>
            /\ reasoner_calls = 0
            /\ \A t \in Threads : req[t].pc = "idle"
    /\ pc \in {"serving", "stopped"} =>
            reasoner_calls = IF Loaded # {} THEN 1 ELSE 0
    /\ (reasoned \/ reasoner_failed) => reasoner_calls = 1

\* a full run: models loaded, one reasoner call, a request answered, shutdown
C4_Witness ==
    /\ pc = "stopped"
    /\ Loaded # {}
    /\ reasoner_calls = 1
    /\ \E t \in Threads : Answered(t)

\* the class and the superclasses the document asserts for it, transitively
AssertedAncestors(cls) == Closure({cls}, FALSE)

Range(seq) == {seq[i] : i \in 1 .. Len(seq)}

C6_StoreReadOnly ==
    [][/\ loaded_ontologies' # loaded_ontologies =>
            \/ pc = "start" /\ pc' = "loaded"
            \/ pc = "serving" /\ pc' = "stopped"
       /\ (pc = "serving" /\ pc' = "serving") =>
            /\ loaded_ontologies' = loaded_ontologies
            /\ reasoned' = reasoned]_vars

\* two requests in flight over a non-empty store, one of them answered 500
C6_Witness ==
    /\ pc = "serving"
    /\ loaded_ontologies # EmptyDict
    /\ \E t, u \in Threads :
        /\ req[t].pc = "labels"
        /\ Answered(u) /\ req[u].status = 500

\* the entities whose identifier ends with the class name of request t
SuffixMatches(t) ==
    {e \in Members(loaded_ontologies[req[t].ontology_name]) :
        EndsWith(Iri(e), req[t].class_name)}

\* C9: fetch_superclasses fails with NotFound exactly when no identifier ends
\* with class_name, and otherwise returns the ancestor set of an entity whose
\* identifier does, with the entity and its asserted ancestors in it.
C9_SuffixMatch ==
    pc = "serving" =>
        \A t \in Threads : (req[t].searched /\ Known(t)) =>
            /\ req[t].status = 404 <=> SuffixMatches(t) = {}
            /\ SuffixMatches(t) # {} =>
                /\ req[t].cls \in SuffixMatches(t)
                /\ AssertedAncestors(req[t].cls) \subseteq req[t].superclasses

====
